---- MODULE Spec2Model ----
(***************************************************************************)
(* A model of cadquery/occ_impl/assembly.py: the Color wrapper, the        *)
(* document compiler toCAF, the fusion compiler toFusedCAF and the         *)
(* topological connector imprint.  Each function is a specification of its *)
(* own (SpecColor, SpecCAF, SpecFused, SpecImprint) over one set of        *)
(* variables; the variables of the functions a specification does not run  *)
(* stay at their idle values.                                              *)
(*                                                                         *)
(* Python objects without __eq__/__hash__ (Color, Material) are dictionary *)
(* keys by identity: they are modelled by object ids 1..n.  Optional       *)
(* values are None (0) or an id.  The OCCT kernel is external: what it     *)
(* reports (fuse history, origins, sub-shape registration) is chosen       *)
(* nondeterministically within the contract the code relies on.            *)
(***************************************************************************)
EXTENDS Integers, Sequences, FiniteSets, TLC

\* ---------------------------------------------------------------- bounds
MaxNodes == 3        \* assembly nodes of a tree given to toCAF
NumColors == 2       \* distinct Color objects
NumShapes == 2       \* distinct shape objects (el.obj)
NumMaterials == 2    \* distinct Material objects
MaxCalls == 2        \* consecutive toCAF calls on the same assembly
MaxLevel == 2        \* a colour channel is k/MaxLevel, k in 0..MaxLevel

\* Python's None, the absent value of an Optional[...] attribute.
None == 0
\* TopLoc_Location(): the identity transform; a node's own loc is >= 1.
IdentityLoc == 0

Max(S) == CHOOSE m \in S : \A x \in S : x <= m
Range(s) == {s[i] : i \in DOMAIN s}
\* dict[key] = val on a dict modelled as a function
Store(d, key, val) == [k \in DOMAIN d \cup {key} |-> IF k = key THEN val ELSE d[k]]
EmptyDict == [k \in {} |-> None]
Count(s, x) == Cardinality({i \in DOMAIN s : s[i] = x})

VARIABLES
  \* ---- Color.__init__ / toTuple
  args,        \* positional arguments of the constructor call
  kwargs,      \* keyword arguments: the value of "a", or NoKw
  wrapped,     \* self.wrapped: <<r, g, b, a>>, or <<>> while not assigned
  colorPc,     \* "idle" | "call" | "built" | "raised" | "read"
  colorTuple,  \* what toTuple returned
  \* ---- toCAF
  assy,        \* the assembly tree: [nodes |-> <<node records>>]
  coloredSTEP, \* flag
  mesh,        \* flag
  cafPc,       \* "off" | "idle" | "running"
  stack,       \* the recursion of _toCAF: frames, innermost first
  labels,      \* the shape tool's labels of the document being built
  matLabels,   \* the material tool's records (one material id each)
  visLabels,   \* the visual-material tool's records
  unique_objs, \* dict (color, obj) -> label
  compounds,   \* dict obj -> compound
  materials,   \* dict material -> material label
  visualization_materials, \* dict material -> visual-material label
  meshOps,     \* the shapes compound.mesh() ran on, in order
  cafTop,      \* the label the outermost _toCAF returned (None before)
  docs,        \* what the finished calls returned: <<[top, labels, ...]>>
  \* ---- toFusedCAF
  fassy,       \* the assembly: [name, entries]; entries is what iterating it yields
  glue,        \* flag
  tol,         \* NoTol (None) or a tolerance
  fPc,         \* "off" | "start" | "dispatch" | "addshape" | "faces" | "done" | "raised"
  shapes,      \* the moved copies, in iteration order
  colors,      \* their colours, parallel to shapes
  fuse_op,     \* the BRepAlgoAPI_Fuse: configuration, whether built, its history of new faces
  fuseLog,     \* the boolean operations executed, in order
  top_level_shape, \* [set, null, faces, members]
  top_level_lbl,   \* [set, null, name]
  subLabels,   \* dict face -> colour: the sub-shape labels of top_level_lbl
  cursor,      \* <<i, j>>: the next face is face j of shapes[i]
  cur,         \* what the kernel answered about the face handled last
  fuseHist,    \* what the face loop did so far: [quiet, sane, buckets, owed, reach]
  fErr,        \* the exception raised: [kind, name]
  \* ---- imprint
  iassy,       \* the assembly: [name, entries]
  iPc,         \* "off" | "start" | "connect" | "origins" | "done" | "raised"
  id_map,      \* dict located solid -> name
  idKeys,      \* the keys of id_map in insertion order
  bldr,        \* the BOPAlgo_MakeConnected: arguments, result solids, their origins
  origins,     \* dict result solid -> tuple of names
  iErr         \* the exception raised: [kind, name]

colorVars == <<args, kwargs, wrapped, colorPc, colorTuple>>
cafVars == <<assy, coloredSTEP, mesh, cafPc, stack, labels, matLabels,
             visLabels, unique_objs, compounds, materials,
             visualization_materials, meshOps, cafTop, docs>>
fusedVars == <<fassy, glue, tol, fPc, shapes, colors, fuse_op, fuseLog,
               top_level_shape, top_level_lbl, subLabels, cursor, cur,
               fuseHist, fErr>>
impVars == <<iassy, iPc, id_map, idKeys, bldr, origins, iErr>>

vars == <<colorVars, cafVars, fusedVars, impVars>>
notColor == <<cafVars, fusedVars, impVars>>
notCAF == <<colorVars, fusedVars, impVars>>
notFused == <<colorVars, cafVars, impVars>>
notImprint == <<colorVars, cafVars, fusedVars>>

\* ================================================================= Color
Levels == 0 .. MaxLevel
Opaque == MaxLevel           \* the channel value 1
NoKw == MaxLevel + 1         \* kwargs holds no "a"
KnownNames == {"red", "green"}
AllNames == KnownNames \cup {"nocolor"}

\* Quantity_ColorRGBA.ColorFromName_s(name, out): whether the palette knows
\* the name, and the colour it writes (alpha 1).
ColorFromName(name) ==
  [exists |-> name \in KnownNames,
   rgba |-> IF name = "red" THEN <<Opaque, 0, 0, Opaque>>
            ELSE IF name = "green" THEN <<0, Opaque, 0, Opaque>>
            ELSE <<Opaque, Opaque, Opaque, Opaque>>]

\* Quantity_ColorRGBA(): the default colour of the kernel
DefaultRGBA == <<Opaque, Opaque, Opaque, Opaque>>

\* kwargs.get("a") is truthy: present and not 0
KwTruthy(kw) == kw # NoKw /\ kw # 0

\* (mutant) the result of the palette lookup is not checked
Color__init__NoNameCheck(a, kw) ==
  IF Len(a) = 0 THEN [wrapped |-> DefaultRGBA, raised |-> FALSE]
  ELSE IF Len(a) = 1
    THEN [wrapped |-> ColorFromName(a[1]).rgba, raised |-> FALSE]
  ELSE IF Len(a) = 3
    THEN [wrapped |-> <<a[1], a[2], a[3], IF KwTruthy(kw) THEN kw ELSE Opaque>>,
          raised |-> FALSE]
  ELSE IF Len(a) = 4
    THEN [wrapped |-> <<a[1], a[2], a[3], a[4]>>, raised |-> FALSE]
  ELSE [wrapped |-> <<>>, raised |-> TRUE]

\* Color.__init__(*args, **kwargs): the value of self.wrapped when the
\* constructor ends, and whether it ended by raising ValueError.
Color__init__(a, kw) ==
  IF Len(a) = 0 THEN [wrapped |-> DefaultRGBA, raised |-> FALSE]
  ELSE IF Len(a) = 1
    THEN [wrapped |-> ColorFromName(a[1]).rgba,
          raised |-> ~ColorFromName(a[1]).exists]
  ELSE IF Len(a) = 3
    THEN [wrapped |-> <<a[1], a[2], a[3], IF KwTruthy(kw) THEN kw ELSE Opaque>>,
          raised |-> FALSE]
  ELSE IF Len(a) = 4
    THEN [wrapped |-> <<a[1], a[2], a[3], a[4]>>, raised |-> FALSE]
  ELSE [wrapped |-> <<>>, raised |-> TRUE]

\* Color.toTuple(): (rgb.Red(), rgb.Green(), rgb.Blue(), Alpha())
toTuple(w) == <<w[1], w[2], w[3], w[4]>>

ColorArgs ==
  {<<>>} \cup {<<n>> : n \in AllNames}
  \cup {<<r, g>> : r \in Levels, g \in Levels}
  \cup {<<r, g, b>> : r \in Levels, g \in Levels, b \in Levels}
  \cup {<<r, g, b, a>> : r \in Levels, g \in Levels, b \in Levels, a \in Levels}
  \cup {<<Opaque, Opaque, Opaque, Opaque, a>> : a \in Levels}

ColorIdle ==
  /\ args = <<>> /\ kwargs = NoKw /\ wrapped = <<>>
  /\ colorPc = "off" /\ colorTuple = <<>>

ColorConstruct ==
  /\ colorPc = "call"
  /\ LET r == Color__init__(args, kwargs)
     IN /\ wrapped' = r.wrapped
        /\ colorPc' = IF r.raised THEN "raised" ELSE "built"
  /\ UNCHANGED <<args, kwargs, colorTuple, notColor>>

ColorToTuple ==
  /\ colorPc = "built"
  /\ colorTuple' = toTuple(wrapped)
  /\ colorPc' = "read"
  /\ UNCHANGED <<args, kwargs, wrapped, notColor>>

\* ================================================================= toCAF
ColorIds == 1 .. NumColors
ShapeIds == 1 .. NumShapes
MaterialIds == 1 .. NumMaterials

\* Object ids are interchangeable: an attribute vector uses id k+1 only
\* after id k (each tree is taken once up to renaming of the objects).
Canonical(f, n) ==
  \A i \in 1 .. n :
    f[i] = None \/ f[i] <= 1 + Max({f[j] : j \in 1 .. (i - 1)} \cup {0})

ChildrenOf(parent, n, p) ==
  LET kids == {c \in 1 .. n : parent[c] = p}
      F[k \in 0 .. n] ==
        IF k = 0 THEN <<>>
        ELSE IF k \in kids THEN Append(F[k - 1], k) ELSE F[k - 1]
  IN F[n]

\* AssemblyProtocol: name, loc, color, material, obj, children
MkNode(i, parent, n, color, material, obj) ==
  [name |-> i, loc |-> i, color |-> color[i], material |-> material[i],
   obj |-> obj[i], children |-> ChildrenOf(parent, n, i)]

\* the assembly trees of up to maxNodes nodes
Trees(maxNodes) ==
  UNION {
    { [nodes |-> [i \in 1 .. n |-> MkNode(i, parent, n, color, material, obj)]] :
        parent \in {p \in [1 .. n -> 0 .. n] :
                      p[1] = 0 /\ \A i \in 2 .. n : p[i] \in 1 .. (i - 1)},
        color \in {c \in [1 .. n -> {None} \cup ColorIds] : Canonical(c, n)},
        material \in {m \in [1 .. n -> {None} \cup MaterialIds] : Canonical(m, n)},
        obj \in {o \in [1 .. n -> {None} \cup ShapeIds] : Canonical(o, n)} }
    : n \in 1 .. maxNodes }

Root == 1

CafIdle ==
  /\ assy = [nodes |-> <<>>] /\ coloredSTEP = FALSE /\ mesh = FALSE
  /\ cafPc = "off" /\ stack = <<>> /\ labels = <<>> /\ matLabels = <<>>
  /\ visLabels = <<>> /\ unique_objs = EmptyDict /\ compounds = EmptyDict
  /\ materials = EmptyDict /\ visualization_materials = EmptyDict
  /\ meshOps = <<>> /\ cafTop = None /\ docs = <<>>

\* ---- the document: labels of the shape tool
NoCompound == [of |-> None, meshed |-> FALSE, copied |-> FALSE]
\* tool.NewShape() followed by setName(l, name, tool)
NewLabel(kind, base, suffix) ==
  [kind |-> kind, name |-> [base |-> base, suffix |-> suffix],
   shape |-> NoCompound, color |-> None, mat |-> None, vis |-> None,
   comps |-> <<>>]
\* tool.AddComponent(parent, child, loc)
AddComponent(ls, parent, child, loc) ==
  [ls EXCEPT ![parent].comps = Append(@, [ref |-> child, loc |-> loc])]
\* (mutant) the colour is not attached
setColor_Nothing(ls, l, color) == ls

\* setColor(l, color, ctool)
setColor(ls, l, color) == [ls EXCEPT ![l].color = color]

\* `key in d`
InDict(key, d) == key \in DOMAIN d

\* (mutant) the inherited colour is ignored
CurrentColor_NoInherit(el, color) == el.color

\* current_color = el.color if el.color else color
CurrentColor(el, color) == IF el.color # None THEN el.color ELSE color

\* (mutant) the key built from the node's own colour, not its effective one
Key0_OwnColor(current_color, el) == <<el.color, el.obj>>

\* key0 = (current_color, el.obj); key1 = el.obj
Key0(current_color, el) == <<current_color, el.obj>>
Key1(el) == el.obj

\* (mutant) the compounds cache is not consulted
GetCompound_NoCache(el, cmps, ops, meshFlag) ==
  LET c == [of |-> el.obj, meshed |-> meshFlag, copied |-> FALSE]
  IN [compound |-> c, compounds |-> Store(cmps, Key1(el), c),
      meshOps |-> IF meshFlag THEN Append(ops, el.obj) ELSE ops]

\* The geometric payload of a new geometry record: the cached compound's
\* copy, or a new compound (meshed when asked), which is then cached.
GetCompound(el, cmps, ops, meshFlag) ==
  IF InDict(Key1(el), cmps)
  THEN [compound |-> [of |-> cmps[Key1(el)].of,
                      meshed |-> cmps[Key1(el)].meshed /\ meshFlag,
                      copied |-> TRUE],
        compounds |-> cmps, meshOps |-> ops]
  ELSE LET c == [of |-> el.obj, meshed |-> meshFlag, copied |-> FALSE]
       IN [compound |-> c, compounds |-> Store(cmps, Key1(el), c),
           meshOps |-> IF meshFlag THEN Append(ops, el.obj) ELSE ops]

\* "Handle materials": the material label and the visual-material label of
\* el.material, and the caches and tools after looking them up.
GetMaterialLabels(material, mats, vmats, mL, vL) ==
  LET mhit == InDict(material, mats)
      vhit == InDict(material, vmats)
  IN [mat |-> IF mhit THEN mats[material] ELSE Len(mL) + 1,
      vis |-> IF vhit THEN vmats[material] ELSE Len(vL) + 1,
      materials |-> IF mhit THEN mats ELSE Store(mats, material, Len(mL) + 1),
      visualization_materials |-> vmats,
      matLabels |-> IF mhit THEN mL ELSE Append(mL, material),
      visLabels |-> IF vhit THEN vL ELSE Append(vL, material)]

\* (mutant) children that own no shape are skipped
ChildrenWithShape(el) ==
  SelectSeq(el.children, LAMBDA c : assy.nodes[c].obj # None)

\* for child in el.children
ChildrenToVisit(el) == el.children

Frame(el, ancestor, color) ==
  [el |-> el, ancestor |-> ancestor, color |-> color, subassy |-> None,
   current_color |-> None, idx |-> 1, entered |-> FALSE]

\* toCAF is called: a new document and empty caches, then _toCAF(assy, None, None)
ToCAF_Call ==
  /\ cafPc = "idle"
  /\ Len(docs) < MaxCalls
  /\ cafPc' = "running"
  /\ stack' = <<Frame(Root, None, None)>>
  /\ labels' = <<>> /\ matLabels' = <<>> /\ visLabels' = <<>>
  /\ unique_objs' = EmptyDict /\ compounds' = EmptyDict
  /\ materials' = EmptyDict /\ visualization_materials' = EmptyDict
  /\ meshOps' = <<>> /\ cafTop' = None
  /\ UNCHANGED <<assy, coloredSTEP, mesh, docs, notCAF>>

\* (mutant) the material is attached and recorded on a hit of unique_objs too
ToCAF_Enter_MaterialOnHit ==
  /\ cafPc = "running" /\ stack # <<>> /\ ~Head(stack).entered
  /\ LET fr == Head(stack)
         el == assy.nodes[fr.el]
         subassy == Len(labels) + 1
         l1 == Append(labels, NewLabel("subassy", el.name, ""))
         current_color == CurrentColor(el, fr.color)
         key0 == Key0(current_color, el)
         hit == InDict(key0, unique_objs)
         lab == IF hit THEN unique_objs[key0] ELSE subassy + 1
         g == GetCompound(el, compounds, meshOps, mesh)
         m == GetMaterialLabels(el.material, materials,
                                visualization_materials, matLabels, visLabels)
         part0 == [NewLabel("part", el.name, "_part") EXCEPT !.shape = g.compound]
         part1 == IF coloredSTEP /\ current_color # None
                  THEN [part0 EXCEPT !.color = current_color] ELSE part0
         part2 == IF el.material # None
                  THEN [part1 EXCEPT !.mat = m.mat, !.vis = m.vis] ELSE part1
         l2 == IF el.obj = None THEN l1
               ELSE AddComponent(IF hit
                                 THEN IF el.material # None
                                      THEN [l1 EXCEPT ![lab].mat = m.mat,
                                                      ![lab].vis = m.vis]
                                      ELSE l1
                                 ELSE Append(l1, part2),
                                 subassy, lab, IdentityLoc)
         l3 == IF ~coloredSTEP /\ current_color # None
               THEN setColor(l2, subassy, current_color) ELSE l2
         fresh == el.obj # None /\ ~hit
         withMat == el.obj # None /\ el.material # None
     IN /\ labels' = l3
        /\ unique_objs' = IF fresh THEN Store(unique_objs, key0, lab)
                          ELSE unique_objs
        /\ compounds' = IF fresh THEN g.compounds ELSE compounds
        /\ meshOps' = IF fresh THEN g.meshOps ELSE meshOps
        /\ materials' = IF withMat THEN m.materials ELSE materials
        /\ visualization_materials' =
             IF withMat THEN m.visualization_materials
             ELSE visualization_materials
        /\ matLabels' = IF withMat THEN m.matLabels ELSE matLabels
        /\ visLabels' = IF withMat THEN m.visLabels ELSE visLabels
        /\ stack' = <<[fr EXCEPT !.subassy = subassy,
                                 !.current_color = current_color,
                                 !.entered = TRUE]>> \o Tail(stack)
  /\ UNCHANGED <<assy, coloredSTEP, mesh, cafPc, cafTop, docs, notCAF>>

\* _toCAF(el, ancestor, color) from its entry to the loop over the children
ToCAF_Enter ==
  /\ cafPc = "running" /\ stack # <<>> /\ ~Head(stack).entered
  /\ LET fr == Head(stack)
         el == assy.nodes[fr.el]
         subassy == Len(labels) + 1
         l1 == Append(labels, NewLabel("subassy", el.name, ""))
         current_color == CurrentColor(el, fr.color)
         key0 == Key0(current_color, el)
         hit == InDict(key0, unique_objs)
         lab == IF hit THEN unique_objs[key0] ELSE subassy + 1
         g == GetCompound(el, compounds, meshOps, mesh)
         m == GetMaterialLabels(el.material, materials,
                                visualization_materials, matLabels, visLabels)
         part0 == [NewLabel("part", el.name, "_part") EXCEPT !.shape = g.compound]
         part1 == IF coloredSTEP /\ current_color # None
                  THEN [part0 EXCEPT !.color = current_color] ELSE part0
         part2 == IF el.material # None
                  THEN [part1 EXCEPT !.mat = m.mat, !.vis = m.vis] ELSE part1
         l2 == IF el.obj = None THEN l1
               ELSE AddComponent(IF hit THEN l1 ELSE Append(l1, part2),
                                 subassy, lab, IdentityLoc)
         l3 == IF ~coloredSTEP /\ current_color # None
               THEN setColor(l2, subassy, current_color) ELSE l2
         fresh == el.obj # None /\ ~hit
         withMat == fresh /\ el.material # None
     IN /\ labels' = l3
        /\ unique_objs' = IF fresh THEN Store(unique_objs, key0, lab)
                          ELSE unique_objs
        /\ compounds' = IF fresh THEN g.compounds ELSE compounds
        /\ meshOps' = IF fresh THEN g.meshOps ELSE meshOps
        /\ materials' = IF withMat THEN m.materials ELSE materials
        /\ visualization_materials' =
             IF withMat THEN m.visualization_materials
             ELSE visualization_materials
        /\ matLabels' = IF withMat THEN m.matLabels ELSE matLabels
        /\ visLabels' = IF withMat THEN m.visLabels ELSE visLabels
        /\ stack' = <<[fr EXCEPT !.subassy = subassy,
                                 !.current_color = current_color,
                                 !.entered = TRUE]>> \o Tail(stack)
  /\ UNCHANGED <<assy, coloredSTEP, mesh, cafPc, cafTop, docs, notCAF>>

\* (mutant) the colour handed down is written into the child node
ToCAF_Recurse_WritesColor ==
  /\ cafPc = "running" /\ stack # <<>> /\ Head(stack).entered
  /\ LET fr == Head(stack)
         kids == ChildrenToVisit(assy.nodes[fr.el])
     IN /\ fr.idx <= Len(kids)
        /\ stack' = <<Frame(kids[fr.idx], fr.subassy, fr.current_color),
                      [fr EXCEPT !.idx = @ + 1]>> \o Tail(stack)
        /\ assy' = [assy EXCEPT !.nodes[kids[fr.idx]].color =
                                  IF @ # None THEN @ ELSE fr.current_color]
  /\ UNCHANGED <<coloredSTEP, mesh, cafPc, cafTop, docs, labels,
                 matLabels, visLabels, unique_objs, compounds, materials,
                 visualization_materials, meshOps, notCAF>>

\* the loop over the children: _toCAF(child, subassy, current_color)
ToCAF_Recurse ==
  /\ cafPc = "running" /\ stack # <<>> /\ Head(stack).entered
  /\ LET fr == Head(stack)
         kids == ChildrenToVisit(assy.nodes[fr.el])
     IN /\ fr.idx <= Len(kids)
        /\ stack' = <<Frame(kids[fr.idx], fr.subassy, fr.current_color),
                      [fr EXCEPT !.idx = @ + 1]>> \o Tail(stack)
  /\ UNCHANGED <<assy, coloredSTEP, mesh, cafPc, cafTop, docs, labels,
                 matLabels, visLabels, unique_objs, compounds, materials,
                 visualization_materials, meshOps, notCAF>>

\* (mutant) the node is linked and returns while children are still to visit
ToCAF_Return_Early ==
  /\ cafPc = "running" /\ stack # <<>> /\ Head(stack).entered
  /\ LET fr == Head(stack)
         el == assy.nodes[fr.el]
     IN /\ labels' = IF fr.ancestor # None
                     THEN AddComponent(labels, fr.ancestor, fr.subassy, el.loc)
                     ELSE labels
        /\ cafTop' = IF Len(stack) = 1 THEN fr.subassy ELSE cafTop
        /\ stack' = Tail(stack)
  /\ UNCHANGED <<assy, coloredSTEP, mesh, cafPc, docs, matLabels, visLabels,
                 unique_objs, compounds, materials, visualization_materials,
                 meshOps, notCAF>>

\* after the loop: link to the ancestor, return subassy
ToCAF_Return ==
  /\ cafPc = "running" /\ stack # <<>> /\ Head(stack).entered
  /\ LET fr == Head(stack)
         el == assy.nodes[fr.el]
     IN /\ fr.idx > Len(ChildrenToVisit(el))
        /\ labels' = IF fr.ancestor # None
                     THEN AddComponent(labels, fr.ancestor, fr.subassy, el.loc)
                     ELSE labels
        /\ cafTop' = IF Len(stack) = 1 THEN fr.subassy ELSE cafTop
        /\ stack' = Tail(stack)
  /\ UNCHANGED <<assy, coloredSTEP, mesh, cafPc, docs, matLabels, visLabels,
                 unique_objs, compounds, materials, visualization_materials,
                 meshOps, notCAF>>

\* (mutant) the caches outlive the call
ToCAF_Finish_KeepCaches ==
  /\ cafPc = "running" /\ stack = <<>>
  /\ docs' = Append(docs, [top |-> cafTop, labels |-> labels,
                           matLabels |-> matLabels, visLabels |-> visLabels,
                           meshOps |-> meshOps, updated |-> TRUE])
  /\ cafPc' = "idle"
  /\ labels' = <<>> /\ matLabels' = <<>> /\ visLabels' = <<>>
  /\ meshOps' = <<>> /\ cafTop' = None /\ stack' = <<>>
  /\ UNCHANGED <<assy, coloredSTEP, mesh, unique_objs, compounds, materials,
                 visualization_materials, notCAF>>

\* tool.UpdateAssemblies(); return top, doc.  The locals are gone.
ToCAF_Finish ==
  /\ cafPc = "running" /\ stack = <<>>
  /\ docs' = Append(docs, [top |-> cafTop, labels |-> labels,
                           matLabels |-> matLabels, visLabels |-> visLabels,
                           meshOps |-> meshOps, updated |-> TRUE])
  /\ cafPc' = "idle"
  /\ labels' = <<>> /\ matLabels' = <<>> /\ visLabels' = <<>>
  /\ unique_objs' = EmptyDict /\ compounds' = EmptyDict
  /\ materials' = EmptyDict /\ visualization_materials' = EmptyDict
  /\ meshOps' = <<>> /\ cafTop' = None /\ stack' = <<>>
  /\ UNCHANGED <<assy, coloredSTEP, mesh, notCAF>>


\* ============================================================ toFusedCAF
MaxShapes == 2       \* entries the assembly yields
MaxFaces == 3        \* faces of all the shapes of an assembly together
MaxNewFaces == 1     \* faces the fuse creates (modified or generated)
MaxTol == 1          \* tolerances are 0 .. MaxTol

NoTol == None - 1    \* tol = None
Tols == 0 .. MaxTol

\* A shape as the assembly yields it: its ShapeType() and its faces; a face
\* is [id, area].  Shape s owns faces <<s, 1>> .. <<s, n>>; the kernel's new
\* faces are <<0, k>>.
ShapeKinds == {"Solid", "Compound"}
FacesOf(owner, n) == [k \in 1 .. n |-> [id |-> <<owner, k>>, area |-> k]]
NewFaces == {<<0, k>> : k \in 1 .. MaxNewFaces}
FaceIds(sh) == {sh.faces[k].id : k \in DOMAIN sh.faces}
Areas(sh) == [k \in DOMAIN sh.faces |-> sh.faces[k].area]
AllFaceIds(shs) == UNION {FaceIds(shs[i]) : i \in DOMAIN shs}

RECURSIVE SumTo(_, _)
SumTo(f, n) == IF n = 0 THEN 0 ELSE f[n] + SumTo(f, n - 1)

FusedEntries(n) ==
  { [i \in 1 .. n |-> [shape |-> [kind |-> kind[i], faces |-> FacesOf(i, nf[i])],
                       name |-> i, loc |-> i, color |-> col[i]]] :
      kind \in [1 .. n -> ShapeKinds],
      nf \in {f \in [1 .. n -> 1 .. MaxFaces] : SumTo(f, n) <= MaxFaces},
      col \in {c \in [1 .. n -> {None} \cup ColorIds] : Canonical(c, n)} }

FusedAssemblies(maxShapes) ==
  UNION { { [name |-> "assy", entries |-> e] : e \in FusedEntries(n) }
          : n \in 0 .. maxShapes }

\* shape.moved(loc).copy(): a new shape with the same type and faces of the
\* same areas, placed at loc
MovedCopy(entry) ==
  [kind |-> entry.shape.kind, faces |-> entry.shape.faces, loc |-> entry.loc]

\* (mutant) the single shape is registered as it is, unwrapped
makeCompound_NotWrapped(members) ==
  [set |-> TRUE, null |-> FALSE, kind |-> members[1].kind, members |-> <<>>,
   faces |-> UNION {FaceIds(members[i]) : i \in DOMAIN members}]

\* Compound.makeCompound((sh,)): a compound of the given members
makeCompound(members) ==
  [set |-> TRUE, null |-> FALSE, kind |-> "Compound", members |-> members,
   faces |-> UNION {FaceIds(members[i]) : i \in DOMAIN members}]

NoShape == [set |-> FALSE, null |-> TRUE, kind |-> "", members |-> <<>>, faces |-> {}]
NoLabel == [set |-> FALSE, null |-> TRUE, name |-> ""]
NoErr == [kind |-> "", name |-> ""]
NoAnswer == [face |-> <<0, 0>>, color |-> None, reg |-> FALSE, del |-> FALSE,
             mod |-> {}, gen |-> {}]
\* The face loop before its first iteration: the kernel has reported no face
\* deleted, modified or generated (quiet); no colour was assigned (buckets:
\* face -> the buckets a colour came from); no face is reached by a coloured
\* original face (owed); the kernel has reported no face of the result
\* deleted (sane); reach: face -> the colours of the coloured original faces
\* that put it in a bucket, in the order of the loop
NoHist == [quiet |-> TRUE, sane |-> TRUE, buckets |-> EmptyDict, owed |-> {},
           reach |-> EmptyDict]
\* BRepAlgoAPI_Fuse(): nothing configured, not built
NewFuseOp ==
  [fuzzy |-> NoTol, glue |-> FALSE, args |-> <<>>, tools |-> <<>>,
   built |-> FALSE, newDel |-> {}]

\* `if tol:` and `if glue:` -- the settings the fuse is given
Configure(op, g, t) ==
  [op EXCEPT !.fuzzy = IF t # NoTol /\ t # 0 THEN t ELSE @,
             !.glue = IF g THEN TRUE ELSE @]

FusedIdle ==
  /\ fassy = [name |-> "", entries |-> <<>>] /\ glue = FALSE /\ tol = NoTol
  /\ fPc = "off" /\ shapes = <<>> /\ colors = <<>> /\ fuse_op = NewFuseOp
  /\ fuseLog = <<>> /\ top_level_shape = NoShape /\ top_level_lbl = NoLabel
  /\ subLabels = EmptyDict /\ cursor = <<1, 1>> /\ cur = NoAnswer
  /\ fuseHist = NoHist /\ fErr = NoErr

\* (mutant) the colours are collected in reverse order
Fused_Flatten_ColorsReversed ==
  /\ fPc = "start"
  /\ shapes' = [i \in DOMAIN fassy.entries |-> MovedCopy(fassy.entries[i])]
  /\ colors' = [i \in DOMAIN fassy.entries |->
                  fassy.entries[Len(fassy.entries) + 1 - i].color]
  /\ fPc' = "dispatch"
  /\ UNCHANGED <<fassy, glue, tol, fuse_op, fuseLog, top_level_shape,
                 top_level_lbl, subLabels, cursor, cur, fuseHist, fErr, notFused>>

\* "Walk the entire assembly, collecting the located shapes and colors"
Fused_Flatten ==
  /\ fPc = "start"
  /\ shapes' = [i \in DOMAIN fassy.entries |-> MovedCopy(fassy.entries[i])]
  /\ colors' = [i \in DOMAIN fassy.entries |-> fassy.entries[i].color]
  /\ fPc' = "dispatch"
  /\ UNCHANGED <<fassy, glue, tol, fuse_op, fuseLog, top_level_shape,
                 top_level_lbl, subLabels, cursor, cur, fuseHist, fErr, notFused>>

\* (mutant) no check for an empty list: a null top-level shape is registered
Fused_Empty_NoCheck ==
  /\ fPc = "dispatch"
  /\ Len(shapes) = 0
  /\ top_level_shape' = [NoShape EXCEPT !.set = TRUE]
  /\ fPc' = "addshape"
  /\ UNCHANGED <<fassy, glue, tol, shapes, colors, fuse_op, fuseLog,
                 top_level_lbl, subLabels, cursor, cur, fuseHist, fErr, notFused>>

\* `if not shapes: raise Exception(f"Error: Assembly {assy.name} has no shapes.")`
Fused_Empty ==
  /\ fPc = "dispatch"
  /\ Len(shapes) = 0
  /\ fErr' = [kind |-> "NoShapes", name |-> fassy.name]
  /\ fPc' = "raised"
  /\ UNCHANGED <<fassy, glue, tol, shapes, colors, fuse_op, fuseLog,
                 top_level_shape, top_level_lbl, subLabels, cursor, cur, fuseHist,
                 notFused>>

\* `elif len(shapes) == 1` and the shape is no Compound: wrap it
Fused_SingleWrap ==
  /\ fPc = "dispatch"
  /\ Len(shapes) = 1
  /\ shapes[1].kind # "Compound"
  /\ top_level_shape' = makeCompound(<<shapes[1]>>)
  /\ fPc' = "addshape"
  /\ UNCHANGED <<fassy, glue, tol, shapes, colors, fuse_op, fuseLog,
                 top_level_lbl, subLabels, cursor, cur, fuseHist, fErr, notFused>>

\* `elif len(shapes) == 1` and the shape is a Compound: sh.fuse(glue, tol), a
\* self-union whose faces the kernel decides, or which the kernel refuses
Fused_SingleFuse ==
  /\ fPc = "dispatch"
  /\ Len(shapes) = 1
  /\ shapes[1].kind = "Compound"
  /\ fuseLog' = Append(fuseLog, [op |-> "self", glue |-> glue, tol |-> tol])
  /\ \/ \E n \in 1 .. MaxFaces :
          LET sh == [kind |-> "Compound", faces |-> FacesOf(0, n),
                     loc |-> shapes[1].loc]
          IN /\ shapes' = <<sh>>
             /\ top_level_shape' = makeCompound(<<sh>>)
             /\ fPc' = "addshape"
             /\ fErr' = fErr
     \/ /\ fErr' = [kind |-> "Kernel", name |-> ""]
        /\ fPc' = "raised"
        /\ UNCHANGED <<shapes, top_level_shape>>
  /\ UNCHANGED <<fassy, glue, tol, colors, fuse_op, top_level_lbl, subLabels,
                 cursor, cur, fuseHist, notFused>>

\* `else`: one fuse of shapes[0] (argument) with shapes[1:] (tools).  The
\* kernel builds a result (the faces it is made of, among the input faces and
\* its new faces, and the new faces it reports deleted), or flags an error
\* and leaves a null shape, or raises.
Fused_Build ==
  /\ fPc = "dispatch"
  /\ Len(shapes) >= 2
  /\ LET op == [Configure(fuse_op, glue, tol) EXCEPT
                  !.args = <<1>>, !.tools = [i \in 1 .. (Len(shapes) - 1) |-> i + 1]]
     IN /\ fuseLog' = Append(fuseLog, [op |-> "fuse", glue |-> op.glue, tol |-> op.fuzzy])
        /\ \/ \E res \in SUBSET (AllFaceIds(shapes) \cup NewFaces),
                 nd \in SUBSET NewFaces :
                /\ fuse_op' = [op EXCEPT !.built = TRUE, !.newDel = nd]
                /\ top_level_shape' =
                     [set |-> TRUE, null |-> FALSE, kind |-> "Compound",
                      members |-> <<>>, faces |-> res]
                /\ fPc' = "addshape"
                /\ fErr' = fErr
           \/ /\ fuse_op' = op
              /\ top_level_shape' = [NoShape EXCEPT !.set = TRUE]
              /\ fPc' = "addshape"
              /\ fErr' = fErr
           \/ /\ fuse_op' = op
              /\ fErr' = [kind |-> "Kernel", name |-> ""]
              /\ fPc' = "raised"
              /\ UNCHANGED top_level_shape
  /\ UNCHANGED <<fassy, glue, tol, shapes, colors, top_level_lbl, subLabels,
                 cursor, cur, fuseHist, notFused>>

\* shape_tool.AddShape(top_level_shape, False); TDataStd_Name.Set_s(...)
Fused_AddShape ==
  /\ fPc = "addshape"
  /\ top_level_lbl' = [set |-> TRUE, null |-> top_level_shape.null,
                       name |-> fassy.name]
  /\ cursor' = <<1, 1>>
  /\ fPc' = "faces"
  /\ UNCHANGED <<fassy, glue, tol, shapes, colors, fuse_op, fuseLog,
                 top_level_shape, subLabels, cur, fuseHist, fErr, notFused>>

\* shape_tool.AddSubShape(top_level_lbl, face): a label (new, or the one the
\* face has) when the face is a sub-shape of the top-level shape; else null
AddSubShape(subs, lbl, topShape, face) ==
  IF ~lbl.null /\ face \in topShape.faces
  THEN [ok |-> TRUE,
        subs |-> IF face \in DOMAIN subs THEN subs ELSE Store(subs, face, None)]
  ELSE [ok |-> FALSE, subs |-> subs]

\* (mutant) a face that has a colour keeps it
SetColor_KeepFirst(subs, face, color) ==
  IF face \in DOMAIN subs /\ subs[face] # None THEN subs
  ELSE Store(subs, face, color)

\* color_tool.SetColor(cur_lbl, color.wrapped, XCAFDoc_ColorGen)
SetColor(subs, face, color) == Store(subs, face, color)

\* (mutant) the deletion check is applied to the generated faces as well
ColorImage_ChecksDeleted(subs, lbl, topShape, face, color, checkDeleted, op) ==
  LET r == AddSubShape(subs, lbl, topShape, face)
  IN IF color # None /\ r.ok /\ face \notin op.newDel
     THEN SetColor(r.subs, face, color) ELSE r.subs

\* One result face of a Modified/Generated list: registered, and coloured
\* `if color and not cur_lbl.IsNull() [and not fuse_op.IsDeleted(f)]`
ColorImage(subs, lbl, topShape, face, color, checkDeleted, op) ==
  LET r == AddSubShape(subs, lbl, topShape, face)
  IN IF color # None /\ r.ok /\ ~(checkDeleted /\ face \in op.newDel)
     THEN SetColor(r.subs, face, color) ELSE r.subs

RECURSIVE ColorImages(_, _, _, _, _, _, _)
ColorImages(subs, lbl, topShape, faces, color, checkDeleted, op) ==
  IF faces = {} THEN subs
  ELSE LET f == CHOOSE x \in faces : TRUE
       IN ColorImages(ColorImage(subs, lbl, topShape, f, color, checkDeleted, op),
                      lbl, topShape, faces \ {f}, color, checkDeleted, op)

\* (mutant) the generated faces are not handled
ColorFace_NoGenerated(subs, lbl, topShape, face, color, del, mod, gen, op) ==
  LET r == AddSubShape(subs, lbl, topShape, face)
      s1 == IF color # None /\ r.ok /\ ~del
            THEN SetColor(r.subs, face, color) ELSE r.subs
  IN ColorImages(s1, lbl, topShape, mod, color, TRUE, op)

\* The body of `for face in shape.Faces()` for one face, given what the
\* kernel reports about it: deleted, Modified(face), Generated(face)
ColorFace(subs, lbl, topShape, face, color, del, mod, gen, op) ==
  LET r == AddSubShape(subs, lbl, topShape, face)
      s1 == IF color # None /\ r.ok /\ ~del
            THEN SetColor(r.subs, face, color) ELSE r.subs
      s2 == ColorImages(s1, lbl, topShape, mod, color, TRUE, op)
  IN ColorImages(s2, lbl, topShape, gen, color, FALSE, op)

\* The history of the face loop after its body ran for one face with the
\* kernel's answers k: the buckets whose SetColor call was made per face,
\* and the faces a coloured original face reaches (itself when not deleted,
\* its Modified and its Generated faces)
Track(h, subs, lbl, topShape, face, color, k, op) ==
  LET reg(f) == AddSubShape(subs, lbl, topShape, f).ok
      survived == IF color # None /\ reg(face) /\ ~k.del THEN {face} ELSE {}
      modded == {m \in k.mod : color # None /\ reg(m) /\ m \notin op.newDel}
      genned == {g \in k.gen : color # None /\ reg(g)}
      old(f) == IF f \in DOMAIN h.buckets THEN h.buckets[f] ELSE {}
      new(f) == (IF f \in survived THEN {"survive"} ELSE {})
                \cup (IF f \in modded THEN {"modified"} ELSE {})
                \cup (IF f \in genned THEN {"generated"} ELSE {})
  IN [quiet |-> h.quiet /\ ~k.del /\ k.mod = {} /\ k.gen = {},
      sane |-> h.sane /\ ~(k.del /\ face \in topShape.faces),
      buckets |-> [f \in DOMAIN h.buckets \cup survived \cup modded \cup genned
                     |-> old(f) \cup new(f)],
      owed |-> h.owed \cup (IF color = None THEN {}
                            ELSE (IF k.del THEN {} ELSE {face})
                                 \cup k.mod \cup k.gen),
      reach |-> LET now == survived \cup modded \cup genned
                IN [f \in DOMAIN h.reach \cup now |->
                      (IF f \in DOMAIN h.reach THEN h.reach[f] ELSE <<>>)
                      \o (IF f \in now THEN <<color>> ELSE <<>>)]]

\* What fuse_op can report about an input face: anything once built;
\* nothing deleted, modified or generated while it was never built
KernelReports(op) ==
  IF op.built
  THEN {[del |-> d, mod |-> m, gen |-> g] :
          d \in BOOLEAN, m \in SUBSET NewFaces, g \in SUBSET NewFaces}
  ELSE {[del |-> FALSE, mod |-> {}, gen |-> {}]}

\* one iteration of `for color, shape in zip(colors, shapes): for face in shape.Faces()`
Fused_Face ==
  /\ fPc = "faces"
  /\ cursor[1] <= Len(shapes)
  /\ LET i == cursor[1]
         j == cursor[2]
         face == shapes[i].faces[j].id
     IN /\ \E k \in KernelReports(fuse_op) :
             /\ subLabels' = ColorFace(subLabels, top_level_lbl, top_level_shape,
                                       face, colors[i], k.del, k.mod, k.gen, fuse_op)
             /\ cur' = [face |-> face, color |-> colors[i],
                        reg |-> AddSubShape(subLabels, top_level_lbl,
                                            top_level_shape, face).ok,
                        del |-> k.del, mod |-> k.mod, gen |-> k.gen]
             /\ fuseHist' = Track(fuseHist, subLabels, top_level_lbl,
                                  top_level_shape, face, colors[i], k, fuse_op)
        /\ cursor' = IF j < Len(shapes[i].faces) THEN <<i, j + 1>> ELSE <<i + 1, 1>>
  /\ UNCHANGED <<fassy, glue, tol, fPc, shapes, colors, fuse_op, fuseLog,
                 top_level_shape, top_level_lbl, fErr, notFused>>

\* return top_level_lbl, doc
Fused_Return ==
  /\ fPc = "faces"
  /\ cursor[1] > Len(shapes)
  /\ fPc' = "done"
  /\ UNCHANGED <<fassy, glue, tol, shapes, colors, fuse_op, fuseLog,
                 top_level_shape, top_level_lbl, subLabels, cursor, cur, fuseHist, fErr,
                 notFused>>

\* =============================================================== imprint
MaxEntries == 2      \* entries the assembly yields
NumSolids == 2       \* distinct solid bodies
NumLocs == 2         \* distinct absolute locations
MaxNewSolids == 1    \* solids the connect operation creates

SolidIds == 1 .. NumSolids
Locs == 1 .. NumLocs
Names == {"a", "b"}
\* the solids of one object, as obj.Solids() lists them
SolidLists == {<<>>} \cup {<<x>> : x \in SolidIds}
              \cup {p \in SolidIds \X SolidIds : p[1] # p[2]}

ImprintAssemblies(maxEntries) ==
  UNION { { [name |-> "assy",
             entries |-> [i \in 1 .. n |-> [obj |-> obj[i], name |-> nm[i],
                                            loc |-> loc[i]]]] :
              obj \in [1 .. n -> SolidLists],
              nm \in [1 .. n -> Names],
              loc \in [1 .. n -> Locs] }
          : n \in 0 .. maxEntries }

\* obj.moved(loc).Solids(): a solid is equal (and hashes equal) to another
\* when it is the same body at the same location
MovedSolids(entry) == [k \in DOMAIN entry.obj |-> <<entry.obj[k], entry.loc>>]
NewSolids == {<<0, k>> : k \in 1 .. MaxNewSolids}

\* id_map[s] = name, keeping the keys in insertion order
PutName(m, s, name) ==
  [map |-> Store(m.map, s, name),
   keys |-> IF s \in DOMAIN m.map THEN m.keys ELSE Append(m.keys, s)]

RECURSIVE PutSolids(_, _, _, _)
PutSolids(m, solids, k, name) ==
  IF k > Len(solids) THEN m
  ELSE PutSolids(PutName(m, solids[k], name), solids, k + 1, name)

\* "make the id map": for obj, name, loc, _ in assy: for s in ...Solids()
RECURSIVE MakeIdMap(_, _, _)
MakeIdMap(m, entries, i) ==
  IF i > Len(entries) THEN m
  ELSE MakeIdMap(PutSolids(m, MovedSolids(entries[i]), 1, entries[i].name),
                 entries, i + 1)

NoBldr == [args |-> <<>>, performed |-> FALSE, null |-> TRUE,
           solids |-> <<>>, originsOf |-> EmptyDict]

ImprintIdle ==
  /\ iassy = [name |-> "", entries |-> <<>>] /\ iPc = "off"
  /\ id_map = EmptyDict /\ idKeys = <<>> /\ bldr = NoBldr
  /\ origins = EmptyDict /\ iErr = NoErr

Imprint_MakeIdMap ==
  /\ iPc = "start"
  /\ LET m == MakeIdMap([map |-> EmptyDict, keys |-> <<>>], iassy.entries, 1)
     IN /\ id_map' = m.map
        /\ idKeys' = m.keys
  /\ iPc' = "connect"
  /\ UNCHANGED <<iassy, bldr, origins, iErr, notImprint>>

\* The sequences without repetition over a set, of length 1 .. 2
OriginLists(S) == {<<x>> : x \in S} \cup {p \in S \X S : p[1] # p[2]}

SeqOfSet(keys, S) ==
  LET F[k \in 0 .. Len(keys)] ==
        IF k = 0 THEN <<>>
        ELSE IF keys[k] \in S THEN Append(F[k - 1], keys[k]) ELSE F[k - 1]
  IN F[Len(keys)]

\* What BOPAlgo_MakeConnected can answer for the given arguments: some
\* arguments pass through unmodified (solids of the result without origins);
\* each new solid of the result has its origins among the other arguments.
ConnectResults(a) ==
  LET A == Range(a)
      news == [k \in 1 .. MaxNewSolids |-> <<0, k>>]
  IN UNION {
       { [solids |-> SeqOfSet(a, keep) \o SeqOfSet(news, DOMAIN o),
          originsOf |-> [s \in keep \cup DOMAIN o |->
                           IF s \in DOMAIN o THEN o[s] ELSE <<>>]] :
           o \in UNION {[N -> OriginLists(A \ keep)] : N \in SUBSET NewSolids} }
       : keep \in SUBSET A }

\* no argument is lost: it passed through, or it is an origin of a new solid
Covers(r, a) ==
  \A s \in Range(a) :
    \/ s \in Range(r.solids) /\ r.originsOf[s] = <<>>
    \/ \E n \in Range(r.solids) : s \in Range(r.originsOf[n])

\* "connect topologically": the arguments are the keys of id_map; Perform();
\* res = Shape(bldr.Shape()).  The kernel connects the arguments, or (always
\* when there are none) has nothing it can connect and leaves a null shape,
\* which the Shape wrapper either rejects or wraps as a shape without solids.
Imprint_Connect ==
  /\ iPc = "connect"
  /\ \/ /\ idKeys # <<>>
        /\ \E r \in ConnectResults(idKeys) :
             /\ Covers(r, idKeys)
             /\ bldr' = [args |-> idKeys, performed |-> TRUE, null |-> FALSE,
                         solids |-> r.solids, originsOf |-> r.originsOf]
        /\ iPc' = "origins"
        /\ iErr' = iErr
     \/ /\ bldr' = [NoBldr EXCEPT !.args = idKeys, !.performed = TRUE]
        /\ \/ iPc' = "origins" /\ iErr' = iErr
           \/ iPc' = "raised" /\ iErr' = [kind |-> "Kernel", name |-> ""]
  /\ UNCHANGED <<iassy, id_map, idKeys, origins, notImprint>>

\* ids = tuple(id_map[Solid(el)] for el in bldr.GetOrigins(s.wrapped))
OriginNames(m, os) == [k \in DOMAIN os |-> m[os[k]]]

\* (mutant) the names of the origins in reverse order
OriginEntry_Reversed(m, s, os) ==
  IF os # <<>> THEN [k \in DOMAIN os |-> m[os[Len(os) + 1 - k]]] ELSE <<m[s]>>

\* origins[s] = ids if ids else (id_map[s],)
OriginEntry(m, s, os) == IF os # <<>> THEN OriginNames(m, os) ELSE <<m[s]>>

\* "make the connected solid -> id map"
Imprint_Origins ==
  /\ iPc = "origins"
  /\ origins' = [s \in Range(bldr.solids) |->
                   OriginEntry(id_map, s, bldr.originsOf[s])]
  /\ iPc' = "done"
  /\ UNCHANGED <<iassy, id_map, idKeys, bldr, iErr, notImprint>>

\* ======================================================== specifications
InitCAF ==
  /\ ColorIdle /\ FusedIdle /\ ImprintIdle
  /\ assy \in Trees(MaxNodes)
  /\ coloredSTEP \in BOOLEAN /\ mesh \in BOOLEAN
  /\ cafPc = "idle" /\ stack = <<>> /\ labels = <<>> /\ matLabels = <<>>
  /\ visLabels = <<>> /\ unique_objs = EmptyDict /\ compounds = EmptyDict
  /\ materials = EmptyDict /\ visualization_materials = EmptyDict
  /\ meshOps = <<>> /\ cafTop = None /\ docs = <<>>

NextCAF ==
  \/ ToCAF_Call
  \/ ToCAF_Enter
  \/ ToCAF_Recurse
  \/ ToCAF_Return
  \/ ToCAF_Finish

InitColor ==
  /\ CafIdle /\ FusedIdle /\ ImprintIdle
  /\ args \in ColorArgs
  /\ kwargs \in Levels \cup {NoKw}
  /\ wrapped = <<>> /\ colorPc = "call" /\ colorTuple = <<>>

NextColor ==
  \/ ColorConstruct
  \/ ColorToTuple

InitFused ==
  /\ ColorIdle /\ CafIdle /\ ImprintIdle
  /\ fassy \in FusedAssemblies(MaxShapes)
  /\ glue \in BOOLEAN
  /\ tol \in {NoTol} \cup Tols
  /\ fPc = "start" /\ shapes = <<>> /\ colors = <<>> /\ fuse_op = NewFuseOp
  /\ fuseLog = <<>> /\ top_level_shape = NoShape /\ top_level_lbl = NoLabel
  /\ subLabels = EmptyDict /\ cursor = <<1, 1>> /\ cur = NoAnswer
  /\ fuseHist = NoHist /\ fErr = NoErr

NextFused ==
  \/ Fused_Flatten
  \/ Fused_Empty
  \/ Fused_SingleWrap
  \/ Fused_SingleFuse
  \/ Fused_Build
  \/ Fused_AddShape
  \/ Fused_Face
  \/ Fused_Return

InitImprint ==
  /\ ColorIdle /\ CafIdle /\ FusedIdle
  /\ iassy \in ImprintAssemblies(MaxEntries)
  /\ iPc = "start" /\ id_map = EmptyDict /\ idKeys = <<>> /\ bldr = NoBldr
  /\ origins = EmptyDict /\ iErr = NoErr

NextImprint ==
  \/ Imprint_MakeIdMap
  \/ Imprint_Connect
  \/ Imprint_Origins

SpecColor == InitColor /\ [][NextColor]_vars
SpecCAF == InitCAF /\ [][NextCAF]_vars
SpecFused == InitFused /\ [][NextFused]_vars
SpecImprint == InitImprint /\ [][NextImprint]_vars

\* one call of one of the three compilers
InitCompilers == InitCAF \/ InitFused \/ InitImprint
NextCompilers == NextCAF \/ NextFused \/ NextImprint
SpecCompilers == InitCompilers /\ [][NextCompilers]_vars

\* ================================================================ claims
\* ---- helpers over the assembly tree (the input, not the compiler's state)
NodeIds(t) == DOMAIN t.nodes
ParentOf(t, n) == CHOOSE p \in NodeIds(t) : n \in Range(t.nodes[p].children)
RECURSIVE EffectiveColor(_, _)
EffectiveColor(t, n) ==
  IF t.nodes[n].color # None THEN t.nodes[n].color
  ELSE IF n = Root THEN None
  ELSE EffectiveColor(t, ParentOf(t, n))
RECURSIVE Reachable(_, _)
Reachable(t, n) ==
  {n} \cup UNION {Reachable(t, c) : c \in Range(t.nodes[n].children)}
Parts(t) == {n \in Reachable(t, Root) : t.nodes[n].obj # None}
PairOf(t, n) == <<EffectiveColor(t, n), t.nodes[n].obj>>

\* ---- helpers over a finished document
StructLabels(d) == {l \in DOMAIN d.labels : d.labels[l].kind = "subassy"}
PartLabels(d) == {l \in DOMAIN d.labels : d.labels[l].kind = "part"}
\* the structural nodes named after assembly node n
StructOf(d, n) == {l \in StructLabels(d) : d.labels[l].name.base = n}
\* the geometry records the structural nodes of n reference
PartRefs(d, n) ==
  {d.labels[l].comps[k].ref : l \in StructOf(d, n), k \in 1 .. 1}
  \cap PartLabels(d)

\* C1: in every finished toCAF call, two nodes carrying the same (effective
\* colour, shape) pair reference one and the same geometry record, and the
\* document holds exactly one geometry record per pair carried.
C1_SharedGeometryRecord ==
  \A c \in DOMAIN docs :
    LET d == docs[c]
    IN /\ \A n1 \in Parts(assy), n2 \in Parts(assy) :
            PairOf(assy, n1) = PairOf(assy, n2) =>
              /\ Cardinality(PartRefs(d, n1)) = 1
              /\ PartRefs(d, n1) = PartRefs(d, n2)
       /\ Cardinality(PartLabels(d))
            = Cardinality({PairOf(assy, n) : n \in Parts(assy)})

\* C1 witness: a finished call on a tree where two different nodes carry the
\* same pair, one of them by inheriting its colour
C1_Witness ==
  \E c \in DOMAIN docs : \E n1 \in Parts(assy), n2 \in Parts(assy) :
    /\ n1 # n2
    /\ PairOf(assy, n1) = PairOf(assy, n2)
    /\ assy.nodes[n1].color # assy.nodes[n2].color
    /\ PartRefs(docs[c], n1) = PartRefs(docs[c], n2)

\* C2 (as claimed): in every finished toCAF call, a material that k >= 2
\* geometry records reference has exactly one material record and exactly one
\* visual-material record, each referenced k times.
C2_OneRecordPerMaterial ==
  \A c \in DOMAIN docs :
    LET d == docs[c]
        users(m) == {l \in PartLabels(d) :
                       d.labels[l].mat # None /\ d.matLabels[d.labels[l].mat] = m}
    IN \A m \in MaterialIds :
         Cardinality(users(m)) >= 2 =>
           /\ Count(d.matLabels, m) = 1
           /\ Count(d.visLabels, m) = 1
           /\ \A l1 \in users(m), l2 \in users(m) :
                /\ d.labels[l1].mat = d.labels[l2].mat
                /\ d.labels[l1].vis = d.labels[l2].vis

\* C3: in every finished toCAF call the structural nodes are as many as the
\* assembly nodes reachable from the root, and every such node, a grouping
\* node without any shape below it too, has a structural node with its name.
C3_StructuralNodePerAssemblyNode ==
  \A c \in DOMAIN docs :
    /\ Cardinality(StructLabels(docs[c])) = Cardinality(Reachable(assy, Root))
    /\ \A n \in Reachable(assy, Root) :
         /\ Cardinality(StructOf(docs[c], n)) = 1
         /\ \A l \in StructOf(docs[c], n) :
              docs[c].labels[l].name = [base |-> assy.nodes[n].name, suffix |-> ""]

\* C3 witness: a finished call on a tree with a grouping node that owns no
\* shape, has no shape below it and is not the root
C3_Witness ==
  \E c \in DOMAIN docs : \E n \in Reachable(assy, Root) \ {Root} :
    /\ \A x \in Reachable(assy, n) : assy.nodes[x].obj = None
    /\ StructOf(docs[c], n) # {}

\* C4: toFusedCAF on an assembly that yields no shape raises the error naming
\* the assembly, with no fuse executed, no top-level shape and no sub-shape
\* registered.
C4_EmptyAssemblyRaises ==
  (Len(fassy.entries) = 0 /\ fPc \notin {"off", "start", "dispatch"}) =>
    /\ fPc = "raised"
    /\ fErr = [kind |-> "NoShapes", name |-> fassy.name]
    /\ fuseLog = <<>> /\ ~fuse_op.built
    /\ ~top_level_shape.set /\ ~top_level_lbl.set
    /\ subLabels = EmptyDict

\* C4 witness: a call on an assembly without shapes has raised
C4_Witness == Len(fassy.entries) = 0 /\ fPc = "raised"

\* C5 (as claimed): imprint on an assembly without any solid does not return
\* a compound and an origin map: the call ends by raising an error that names
\* the assembly.
C5_NoSolidsFails ==
  (idKeys = <<>> /\ iPc \in {"done", "raised"}) =>
    /\ iPc = "raised"
    /\ iErr.name = iassy.name

\* C6 (as claimed): when imprint returns after a successful connect, the name
\* of every entry that yielded a solid is in some tuple of the origin map.
C6_NoNameLost ==
  (iPc = "done" /\ ~bldr.null) =>
    \A i \in DOMAIN iassy.entries :
      Len(iassy.entries[i].obj) > 0 =>
        \E s \in DOMAIN origins : iassy.entries[i].name \in Range(origins[s])

\* C7: when imprint returns, every solid of the result has a non-empty tuple
\* in the origin map: the names of its origins in the order the kernel lists
\* them, or, when the kernel lists none, its own recorded name alone.
C7_OriginTuples ==
  iPc = "done" =>
    /\ DOMAIN origins = Range(bldr.solids)
    /\ \A s \in DOMAIN origins :
         LET os == bldr.originsOf[s]
         IN /\ Len(origins[s]) > 0
            /\ os # <<>> =>
                 /\ Len(origins[s]) = Len(os)
                 /\ \A k \in DOMAIN os : origins[s][k] = id_map[os[k]]
            /\ os = <<>> => origins[s] = <<id_map[s]>>

\* C7 witness: a returned map with an untouched solid and a solid that has
\* two origins of different names
C7_Witness ==
  /\ iPc = "done"
  /\ \E s \in DOMAIN origins : bldr.originsOf[s] = <<>>
  /\ \E s \in DOMAIN origins :
       /\ Len(bldr.originsOf[s]) = 2
       /\ origins[s][1] # origins[s][2]

\* C8 (as claimed): a Color built from three positional channels has alpha 0
\* without an alpha keyword and alpha a with the keyword a, a = 0 included.
C8_AlphaOfThreeArguments ==
  (colorPc = "read" /\ Len(args) = 3) =>
    colorTuple = <<args[1], args[2], args[3], IF kwargs = NoKw THEN 0 ELSE kwargs>>

\* C9: the constructor raises exactly for one positional argument that is no
\* known colour name and for 2 or more than 4 positional arguments; when it
\* raises no object comes back.
C9_InvalidSpecificationRaises ==
  colorPc # "call" =>
    /\ colorPc = "raised" <=>
         \/ Len(args) = 1 /\ args[1] \notin KnownNames
         \/ Len(args) \notin {0, 1, 3, 4}
    /\ colorPc = "raised" => colorTuple = <<>>
    /\ colorPc # "raised" => Len(wrapped) = 4

\* C9 witness: one positional argument that is no known colour name has raised
C9_Witness ==
  /\ colorPc = "raised" /\ Len(args) = 1 /\ args[1] \notin KnownNames

\* C10: toFusedCAF on one shape that is no compound runs no fuse; the
\* top-level shape is a compound of one member, the moved copy, whose faces
\* are as many as the input's and of the same areas.
C10_SingleShapeWrapped ==
  (/\ Len(fassy.entries) = 1
   /\ fassy.entries[1].shape.kind # "Compound"
   /\ fPc \in {"addshape", "faces", "done"}) =>
    LET in == fassy.entries[1]
    IN /\ fuseLog = <<>> /\ ~fuse_op.built
       /\ top_level_shape.set /\ ~top_level_shape.null
       /\ top_level_shape.kind = "Compound"
       /\ Len(top_level_shape.members) = 1
       /\ top_level_shape.members[1].kind = in.shape.kind
       /\ top_level_shape.members[1].loc = in.loc
       /\ Areas(top_level_shape.members[1]) = Areas(in.shape)
       /\ Cardinality(top_level_shape.faces) = Len(in.shape.faces)
       /\ fPc = "done" => ~top_level_lbl.null

\* C10 witness: a finished call on one non-compound shape of two faces or more
C10_Witness ==
  /\ Len(fassy.entries) = 1
  /\ fassy.entries[1].shape.kind # "Compound"
  /\ Len(fassy.entries[1].shape.faces) >= 2
  /\ fPc = "done"

\* ---- helpers over a finished toFusedCAF call
\* the faces of the top-level shape that carry a colour
Coloured == {f \in DOMAIN subLabels : subLabels[f] # None}
\* a fuse of two shapes was built and the call returned; the kernel did not
\* report a face of the result deleted
FusedTwo ==
  /\ fPc = "done" /\ Len(shapes) = 2 /\ fuse_op.built
  /\ fuseHist.sane /\ fuse_op.newDel \cap top_level_shape.faces = {}

\* C11: toFusedCAF on two disjoint shapes (the result is made of the faces of
\* both inputs, and the kernel reports no face deleted, modified or
\* generated) returns a shape with as many faces as both inputs together,
\* every one registered and carrying the colour of the shape it comes from
\* (no colour when that shape has none).
C11_DisjointShapes ==
  (FusedTwo /\ fuseHist.quiet /\ top_level_shape.faces = AllFaceIds(shapes)) =>
    /\ Cardinality(top_level_shape.faces)
         = Len(fassy.entries[1].shape.faces) + Len(fassy.entries[2].shape.faces)
    /\ DOMAIN subLabels = top_level_shape.faces
    /\ \A i \in 1 .. 2 : \A j \in DOMAIN fassy.entries[i].shape.faces :
         subLabels[fassy.entries[i].shape.faces[j].id] = fassy.entries[i].color

\* C11 witness: a returned fuse of two disjoint shapes of different colours
C11_Witness ==
  /\ FusedTwo /\ fuseHist.quiet /\ top_level_shape.faces = AllFaceIds(shapes)
  /\ fassy.entries[1].color # None /\ fassy.entries[2].color # None
  /\ fassy.entries[1].color # fassy.entries[2].color
  /\ Cardinality(Coloured) = MaxFaces

\* C12 (as claimed): after a fuse of two shapes every coloured face of the
\* result got its colour from exactly one of the buckets survive, modified,
\* generated, and every face of the result that a coloured original face
\* reaches is coloured.
C12_ExactlyOneBucket ==
  FusedTwo =>
    \A f \in top_level_shape.faces :
      /\ f \in Coloured => Cardinality(fuseHist.buckets[f]) = 1
      /\ f \in fuseHist.owed => f \in Coloured

\* C12 (amended): after a fuse of two shapes every coloured face of the
\* result got its colour from at least one of the buckets survive, modified,
\* generated (from several when the kernel reports it for several), and
\* every face of the result that a coloured original face reaches is
\* coloured.
C12_SomeBucket ==
  FusedTwo =>
    \A f \in top_level_shape.faces :
      /\ f \in Coloured =>
           /\ f \in DOMAIN fuseHist.buckets
           /\ fuseHist.buckets[f] # {}
           /\ f \in fuseHist.owed
      /\ f \in fuseHist.owed => f \in Coloured

\* C12 witness: a face of the result coloured from two buckets, beside a
\* face that survived with its colour
C12_Witness ==
  /\ FusedTwo
  /\ \E f \in top_level_shape.faces \cap Coloured :
       fuseHist.buckets[f] = {"modified", "generated"}
  /\ \E f \in top_level_shape.faces \cap Coloured :
       fuseHist.buckets[f] = {"survive"}

\* C13 (as claimed): with two shapes or more, the one fuse that is executed
\* has the fuzzy value set exactly when a tolerance was passed (0 included),
\* to that tolerance, and glue set exactly when glue was passed as true.
C13_ConfiguredAsSupplied ==
  (Len(shapes) >= 2 /\ fPc \notin {"off", "start", "dispatch"}) =>
    /\ Len(fuseLog) = 1
    /\ fuseLog[1].op = "fuse"
    /\ fuseLog[1].tol = tol
    /\ fuseLog[1].glue = glue

CachesEmpty ==
  /\ unique_objs = EmptyDict /\ compounds = EmptyDict
  /\ materials = EmptyDict /\ visualization_materials = EmptyDict
\* every reference of a document points to a record of the same document
SelfContained(d) ==
  \A l \in DOMAIN d.labels :
    /\ \A k \in DOMAIN d.labels[l].comps :
         d.labels[l].comps[k].ref \in DOMAIN d.labels
    /\ d.labels[l].mat \in {None} \cup DOMAIN d.matLabels
    /\ d.labels[l].vis \in {None} \cup DOMAIN d.visLabels

\* C16: the caches of toCAF are empty when a call starts and gone when it
\* has returned; a second call on the same assembly builds a document of
\* its own with as many records as the first (it finds nothing cached), and
\* each document refers to its own records only.
C16_CachesLocalToCall ==
  /\ cafPc = "idle" => CachesEmpty
  /\ (cafPc = "running" /\ labels = <<>>) => CachesEmpty
  /\ \A c \in DOMAIN docs : SelfContained(docs[c])
  /\ Len(docs) = 2 =>
       /\ Len(docs[2].labels) = Len(docs[1].labels)
       /\ Len(docs[2].matLabels) = Len(docs[1].matLabels)
       /\ Len(docs[2].visLabels) = Len(docs[1].visLabels)
       /\ docs[2] = docs[1]

\* C16 witness: two finished calls on an assembly with a shape two nodes
\* share, a material, and meshing
C16_Witness ==
  /\ Len(docs) = 2 /\ cafPc = "idle" /\ mesh
  /\ Len(docs[2].matLabels) >= 1
  /\ Cardinality(PartLabels(docs[2])) < Cardinality(Parts(assy))

\* ---- the label sequences to look at: the document being built and the
\* documents returned
LabelSeqs == {labels} \cup {docs[c].labels : c \in DOMAIN docs}
\* the structural node of assembly node n among the labels ls
LabelOfNode(ls, n) ==
  {l \in DOMAIN ls : ls[l].kind = "subassy" /\ ls[l].name.base = n}
\* the geometry records the structural node of n references
PartsOfNode(ls, n) ==
  UNION {{ls[l].comps[k].ref : k \in {1} \cap DOMAIN ls[l].comps}
           : l \in LabelOfNode(ls, n)}
  \cap {l \in DOMAIN ls : ls[l].kind = "part"}

\* C17: with coloredSTEP no structural node ever has a colour and every
\* geometry record has the effective colour of the nodes that reference it;
\* without coloredSTEP no geometry record ever has a colour and every
\* structural node has the effective colour of its assembly node (none
\* when that is absent).
C17_ColorInOnePlace ==
  \A ls \in LabelSeqs : \A l \in DOMAIN ls :
    LET n == ls[l].name.base
    IN /\ (coloredSTEP /\ ls[l].kind = "subassy") => ls[l].color = None
       /\ (~coloredSTEP /\ ls[l].kind = "part") => ls[l].color = None
       /\ (~coloredSTEP /\ ls[l].kind = "subassy") =>
            ls[l].color = EffectiveColor(assy, n)
       /\ (coloredSTEP /\ ls[l].kind = "subassy") =>
            \A q \in PartsOfNode(ls, n) : ls[q].color = EffectiveColor(assy, n)

\* C17 witness: documents returned with coloredSTEP for a tree where a node
\* with a shape inherits its colour and another node with a shape has none
C17_Witness ==
  /\ Len(docs) = 2 /\ coloredSTEP
  /\ \E n \in Parts(assy) :
       /\ assy.nodes[n].color = None /\ EffectiveColor(assy, n) # None
       /\ \E q \in PartsOfNode(docs[1].labels, n) :
            docs[1].labels[q].color = EffectiveColor(assy, n)
  /\ \E n \in Parts(assy) : EffectiveColor(assy, n) = None

\* the material of a geometry record (None when it has none)
MaterialOf(d, l) ==
  IF d.labels[l].mat = None THEN None ELSE d.matLabels[d.labels[l].mat]
\* the nodes whose structural node references geometry record l
UsersOf(d, l) == {n \in Parts(assy) : l \in PartsOfNode(d.labels, n)}

\* C18: every call of _toCAF gets the effective colour of the node's parent
\* (none for the root) and resolves the node's own colour, else that one;
\* the keys of unique_objs are (effective colour, shape) pairs of nodes; the
\* colour attached for a node is its effective colour; the material of a
\* geometry record is the own material of a node that references it, never
\* one handed down from an ancestor.
C18_EffectiveColorInherited ==
  /\ \A i \in DOMAIN stack :
       LET fr == stack[i]
       IN /\ fr.color = IF fr.el = Root THEN None
                        ELSE EffectiveColor(assy, ParentOf(assy, fr.el))
          /\ fr.entered => fr.current_color = EffectiveColor(assy, fr.el)
  /\ DOMAIN unique_objs \subseteq {PairOf(assy, n) : n \in Parts(assy)}
  /\ \A c \in DOMAIN docs :
       LET d == docs[c]
       IN /\ \A n \in Reachable(assy, Root) :
               /\ \A l \in LabelOfNode(d.labels, n) :
                    d.labels[l].color =
                      IF coloredSTEP THEN None ELSE EffectiveColor(assy, n)
               /\ \A q \in PartsOfNode(d.labels, n) :
                    d.labels[q].color =
                      IF coloredSTEP THEN EffectiveColor(assy, n) ELSE None
          /\ \A q \in PartLabels(d) :
               /\ UsersOf(d, q) # {}
               /\ MaterialOf(d, q) \in {assy.nodes[n].material : n \in UsersOf(d, q)}

\* C18 witness: a returned document of a chain of three nodes: the root has
\* a colour and a material, its grandchild has a shape and neither; the
\* grandchild's geometry record has the root's colour and no material
C18_Witness ==
  /\ Len(docs) >= 1 /\ coloredSTEP
  /\ \E n \in Parts(assy) \ {Root} :
       /\ ParentOf(assy, n) # Root
       /\ assy.nodes[n].color = None /\ assy.nodes[n].material = None
       /\ assy.nodes[ParentOf(assy, n)].color = None
       /\ assy.nodes[Root].color # None /\ assy.nodes[Root].material # None
       /\ assy.nodes[Root].obj # None
       /\ \E q \in PartsOfNode(docs[1].labels, n) :
            /\ docs[1].labels[q].color = assy.nodes[Root].color
            /\ MaterialOf(docs[1], q) = None

\* the links (parent label, position) among ls that reference label l
LinksTo(ls, l) ==
  {pk \in (DOMAIN ls) \X (1 .. (MaxNodes + 1)) :
     /\ pk[2] \in DOMAIN ls[pk[1]].comps
     /\ ls[pk[1]].comps[pk[2]].ref = l}

\* C19: a structural node is linked only into the structural node of its
\* parent, once, with the node's own loc, and only when every child of the
\* node has its structural node linked into it; the root's structural node
\* is never linked.  In a returned document every node but the root is
\* linked, and the handle returned is the root's structural node.
C19_LinkedAfterChildren ==
  /\ \A ls \in LabelSeqs : \A n \in NodeIds(assy) : \A l \in LabelOfNode(ls, n) :
       /\ Cardinality(LinksTo(ls, l)) <= 1
       /\ n = Root => LinksTo(ls, l) = {}
       /\ \A pk \in LinksTo(ls, l) :
            /\ pk[1] \in LabelOfNode(ls, ParentOf(assy, n))
            /\ ls[pk[1]].comps[pk[2]].loc = assy.nodes[n].loc
            /\ \A c \in Range(assy.nodes[n].children) :
                 \E lc \in LabelOfNode(ls, c) :
                   \E ck \in LinksTo(ls, lc) : ck[1] = l
  /\ \A c \in DOMAIN docs :
       /\ \A n \in Reachable(assy, Root) \ {Root} :
            \E l \in LabelOfNode(docs[c].labels, n) :
              Cardinality(LinksTo(docs[c].labels, l)) = 1
       /\ LabelOfNode(docs[c].labels, Root) = {docs[c].top}

\* C19 witness: while the document is built, a node with a child is linked
\* into the root's structural node, its child linked into it before
C19_Witness ==
  /\ cafPc = "running"
  /\ \E n \in NodeIds(assy) \ {Root} : \E l \in LabelOfNode(labels, n) :
       /\ assy.nodes[n].children # <<>>
       /\ LinksTo(labels, l) # {}

\* the geometry records of a document that hold shape o
RecordsOf(ls, o) == {l \in DOMAIN ls : ls[l].kind = "part" /\ ls[l].shape.of = o}

\* C20: in a toCAF call with meshing, compound.mesh runs at most once per
\* shape, whatever the number of nodes and colours that reference the shape:
\* of the geometry records of one shape exactly one holds the compound that
\* was built (and meshed), the others hold copies of it, meshed as well.
\* Without meshing nothing is meshed.
C20_MeshOncePerShape ==
  \A d \in {[labels |-> labels, meshOps |-> meshOps]}
          \cup {[labels |-> docs[c].labels, meshOps |-> docs[c].meshOps] :
                  c \in DOMAIN docs} :
    /\ \A o \in ShapeIds : Count(d.meshOps, o) <= 1
    /\ ~mesh => d.meshOps = <<>>
    /\ \A o \in ShapeIds :
         RecordsOf(d.labels, o) # {} =>
           /\ Cardinality({l \in RecordsOf(d.labels, o) :
                             ~d.labels[l].shape.copied}) = 1
           /\ mesh => Count(d.meshOps, o) = 1
           /\ \A l \in RecordsOf(d.labels, o) : d.labels[l].shape.meshed = mesh

\* C20 witness: a returned document, meshed, in which one shape has two
\* geometry records (two colours) and was meshed once
C20_Witness ==
  /\ mesh /\ Len(docs) >= 1
  /\ \E o \in ShapeIds :
       /\ Cardinality(RecordsOf(docs[1].labels, o)) = 2
       /\ Count(docs[1].meshOps, o) = 1

\* the colour of face f among the sub-shape labels (None: no label, or a
\* label without a colour)
Got(subs, f) == IF f \in DOMAIN subs THEN subs[f] ELSE None

\* C21: every iteration of the face loop, for the face F with the colour C
\* of its shape: F, its modified and its generated faces get a label exactly
\* when their registration succeeds (or they had one); with C present, F
\* gets C iff it is registered and not reported deleted, a modified face
\* gets C iff it is registered and not reported deleted, a generated face
\* gets C iff it is registered; a face that does not get C keeps what it
\* had.  Without C no colour changes.
C21_PerFaceRule ==
  [][(fPc = "faces" /\ cursor[1] <= Len(shapes)) =>
       LET F == shapes[cursor[1]].faces[cursor[2]].id
           C == colors[cursor[1]]
           k == cur'
           reg(f) == ~top_level_lbl.null /\ f \in top_level_shape.faces
           touched == {F} \cup k.mod \cup k.gen
           all == AllFaceIds(shapes) \cup NewFaces
       IN /\ k.face = F /\ k.color = C /\ k.reg = reg(F)
          /\ C = fassy.entries[cursor[1]].color
          /\ \A f \in all :
               f \in DOMAIN subLabels' <=>
                 (f \in DOMAIN subLabels \/ (f \in touched /\ reg(f)))
          /\ \A f \in all \ touched : Got(subLabels', f) = Got(subLabels, f)
          /\ C = None => \A f \in all : Got(subLabels', f) = Got(subLabels, f)
          /\ C # None =>
               /\ Got(subLabels', F) =
                    IF reg(F) /\ ~k.del THEN C ELSE Got(subLabels, F)
               /\ \A g \in k.gen :
                    Got(subLabels', g) = IF reg(g) THEN C ELSE Got(subLabels, g)
               /\ \A m \in k.mod \ k.gen :
                    Got(subLabels', m) =
                      IF reg(m) /\ m \notin fuse_op.newDel
                      THEN C ELSE Got(subLabels, m)]_vars

\* C21 witness: the face handled last is registered, not deleted and has its
\* shape's colour; a face generated from it is coloured although the kernel
\* reports it deleted, and a face of a shape without colour got a label but
\* no colour
C21_Witness ==
  /\ fPc = "faces" /\ cur.color # None /\ cur.reg /\ ~cur.del
  /\ Got(subLabels, cur.face) = cur.color
  /\ \E g \in cur.gen :
       /\ g \in fuse_op.newDel /\ g \in top_level_shape.faces
       /\ Got(subLabels, g) = cur.color
  /\ \E f \in DOMAIN subLabels : f # cur.face /\ f[1] # 0 /\ subLabels[f] = None

\* the nodes of the tree in the order _toCAF visits them
RECURSIVE Preorder(_, _)
RECURSIVE PreorderAll(_, _)
PreorderAll(t, kids) ==
  IF kids = <<>> THEN <<>>
  ELSE Preorder(t, Head(kids)) \o PreorderAll(t, Tail(kids))
Preorder(t, n) == <<n>> \o PreorderAll(t, t.nodes[n].children)
PosIn(seq, x) == CHOOSE i \in DOMAIN seq : seq[i] = x
\* the node that created geometry record l: the first that references it
FirstUser(d, l) ==
  CHOOSE n \in UsersOf(d, l) :
    \A o \in UsersOf(d, l) :
      PosIn(Preorder(assy, Root), n) <= PosIn(Preorder(assy, Root), o)
\* the materials of the nodes that created the geometry records
CreatorMaterials(d) ==
  {assy.nodes[FirstUser(d, l)].material : l \in PartLabels(d)} \ {None}

\* C22: in every returned document a geometry record has the material of
\* the node that created it (none when that node has none), whatever the
\* materials of the nodes that reference it later; the material records and
\* visual-material records are those of the creating nodes' materials only.
C22_MaterialOnCreationOnly ==
  \A c \in DOMAIN docs :
    LET d == docs[c]
    IN /\ \A l \in PartLabels(d) :
            /\ MaterialOf(d, l) = assy.nodes[FirstUser(d, l)].material
            /\ (d.labels[l].vis = None) = (d.labels[l].mat = None)
            /\ d.labels[l].vis # None =>
                 d.visLabels[d.labels[l].vis] = MaterialOf(d, l)
       /\ Range(d.matLabels) = CreatorMaterials(d)
       /\ Range(d.visLabels) = CreatorMaterials(d)

\* C22 witness: a geometry record two nodes reference; the later node has a
\* material, another than the first node's, that the document does not hold
C22_Witness ==
  \E c \in DOMAIN docs : \E l \in PartLabels(docs[c]) :
    \E n \in UsersOf(docs[c], l) \ {FirstUser(docs[c], l)} :
      /\ assy.nodes[n].material # None
      /\ assy.nodes[FirstUser(docs[c], l)].material # None
      /\ assy.nodes[n].material # assy.nodes[FirstUser(docs[c], l)].material
      /\ assy.nodes[n].material \notin Range(docs[c].matLabels)
      /\ MaterialOf(docs[c], l) = assy.nodes[FirstUser(docs[c], l)].material

\* C23: when toFusedCAF has returned, a face of the result that coloured
\* original faces put in a bucket (survive, modified or generated) carries
\* the colour of the last of them in the order of the loop, which walks
\* shapes[i] with colors[i] in the order the assembly yields them: a later
\* assignment overwrites an earlier one.
C23_LastWriterWins ==
  fPc = "done" =>
    /\ \A i \in DOMAIN shapes : colors[i] = fassy.entries[i].color
    /\ \A f \in DOMAIN fuseHist.reach :
         /\ f \in top_level_shape.faces
         /\ Got(subLabels, f) = fuseHist.reach[f][Len(fuseHist.reach[f])]

\* C23 witness: a face of the result reached first from a face of the first
\* shape, then from a face of the second shape, of another colour, carries
\* the second colour
C23_Witness ==
  /\ fPc = "done" /\ Len(shapes) = 2
  /\ colors[1] # None /\ colors[2] # None /\ colors[1] # colors[2]
  /\ \E f \in top_level_shape.faces \cap DOMAIN fuseHist.reach :
       /\ fuseHist.reach[f] = <<colors[1], colors[2]>>
       /\ subLabels[f] = colors[2]

====
